---- MODULE Spec2Model ----
(***************************************************************************)
(* Backup & Restore engine of the POS platform: BackupService              *)
(* (backend/src/modules/backup, file restore-backup.dto.ts lines 230-821). *)
(* and the restore script backend/scripts/backup-restore.ts, whose runs    *)
(* are processes of their own that call the same service code.             *)
(* The last part is the notification store of the customer front end       *)
(* (frontend-customer/src/store/notifications/notificationStore.ts).       *)
(*                                                                         *)
(* Scaling.  Bytes are 0..3, the AES block and the IV are BlockSize bytes  *)
(* (16 in the source), a read-stream chunk is ChunkSize bytes (65536 in    *)
(* the source, a multiple of the block size).  The block cipher is a       *)
(* fixed byte permutation, chained in CBC mode with PKCS#7 padding, so     *)
(* that encryption followed by decryption is computed, not assumed.        *)
(*                                                                         *)
(* Identifiers.  A backupId is a positive integer (generateBackupId).      *)
(* The primary key `id` of a stored row is generated by the store          *)
(* (saveBackupMetadata's create block does not set it); row ids are the    *)
(* negative integers, so that a row id never equals a backupId.            *)
(***************************************************************************)
EXTENDS Integers, Sequences, FiniteSets, TLC

\* ------------------------------------------------------------------ bounds
BlockSize == 2
ChunkBlocks == 2
MaxLen == 5
MaxCalls == 2
MaxClock == 2
RetentionDays == 1
MaxNotifs == 3

ChunkSize == ChunkBlocks * BlockSize

Byte == 0..3

Min(a, b) == IF a < b THEN a ELSE b

\* ------------------------------------------------------- encryption codec
Xor(a, b) == (((a % 2) + (b % 2)) % 2) + 2 * (((a \div 2) + (b \div 2)) % 2)

\* the block cipher under the derived key, byte by byte, and its inverse
EncByte(b) == (b + 1) % 4
DecByte(b) == (b + 3) % 4

\* PKCS#7: always pads, with n bytes of value n, 1 <= n <= BlockSize
Pad(x) ==
  LET n == BlockSize - (Len(x) % BlockSize)
  IN  x \o [i \in 1..n |-> n]

PadOk(p) ==
  /\ Len(p) > 0
  /\ Len(p) % BlockSize = 0
  /\ LET n == p[Len(p)]
     IN  /\ n >= 1
         /\ n <= BlockSize
         /\ \A i \in (Len(p) - n + 1)..Len(p) : p[i] = n

Unpad(p) == SubSeq(p, 1, Len(p) - p[Len(p)])

CbcEncrypt(iv, p) ==
  LET F[i \in 0..Len(p)] ==
        IF i = 0 THEN <<>>
        ELSE LET c == F[i - 1]
             IN  Append(c, EncByte(Xor(p[i],
                        IF i <= BlockSize THEN iv[i] ELSE c[i - BlockSize])))
  IN  F[Len(p)]

CbcDecrypt(iv, c) ==
  [i \in 1..Len(c) |->
     Xor(DecByte(c[i]), IF i <= BlockSize THEN iv[i] ELSE c[i - BlockSize])]

\* encryptFile: output.write(iv), then input.pipe(cipher).pipe(output)
EncryptedBytes(iv, x) == iv \o CbcEncrypt(iv, Pad(x))

\* The first 'data' chunk of a read stream over a regular file.
FirstChunkLen(file) == Min(ChunkSize, Len(file))

\* decryptFile.  The 'data' handler takes iv = chunk.slice(0, 16) from the
\* first chunk and only then calls input.pipe(cipher): the pipe's own 'data'
\* listener is added while the first chunk is being emitted, so the cipher
\* receives the chunks AFTER the first one.  Outcomes:
\*   "ok"        output 'finish' -> resolve(outputPath), data written
\*   "pending"   no 'data' event at all (empty file): nothing is piped, the
\*               output never finishes and the promise never settles
\*   "unhandled" createDecipheriv or the decipher's final() fails; the cipher
\*               stream has no 'error' listener and the promise never settles
DecryptStream(file, first) ==
  LET iv   == SubSeq(file, 1, Min(BlockSize, first))
      rest == SubSeq(file, first + 1, Len(file))
  IN  IF Len(file) = 0 THEN [kind |-> "pending", data |-> <<>>]
      ELSE IF Len(iv) # BlockSize THEN [kind |-> "unhandled", data |-> <<>>]
      ELSE IF Len(rest) = 0 \/ Len(rest) % BlockSize # 0
             THEN [kind |-> "unhandled", data |-> <<>>]
      ELSE LET p == CbcDecrypt(iv, rest)
           IN  IF PadOk(p) THEN [kind |-> "ok", data |-> Unpad(p)]
               ELSE [kind |-> "unhandled", data |-> <<>>]

DecryptedBytes(file) == DecryptStream(file, FirstChunkLen(file))

\* ------------------------------------------------------------------ state
VARIABLES
  calls,          \* the invocations of the service's operations, by call slot
  activeBackups,  \* keys of BackupService.activeBackups
  db,             \* rows of prisma.backupMetadata
  files,          \* the file system under process.cwd(): path -> file
  targetStore,    \* contents of the relational store (as its dump bytes)
  toolRuns,       \* restore calls that have invoked pg_restore
  now,            \* the clock, in days
  nextId,         \* source of fresh backupIds and row ids
  cpc, cx, civ, cenc, cres,  \* the encrypt/decrypt self-test (testBackup)
  ckey,           \* process.env.BACKUP_ENCRYPTION_KEY ("" when it is not set)
  ckeyUsed,       \* the password the last encryption or decryption derived
                  \* its key from
  notifications,  \* useNotificationStore: the notifications, newest first
  unreadCount,    \* useNotificationStore: unreadCount
  timers,         \* ids whose auto-read setTimeout has not fired yet
  nextNotif       \* source of fresh notification ids

orchVars == <<calls, activeBackups, db, files, targetStore, toolRuns, now, nextId>>
codecVars == <<cpc, cx, civ, cenc, cres, ckey, ckeyUsed>>
notifVars == <<notifications, unreadCount, timers, nextNotif>>
vars == <<calls, activeBackups, db, files, targetStore, toolRuns, now, nextId,
          cpc, cx, civ, cenc, cres, ckey, ckeyUsed,
          notifications, unreadCount, timers, nextNotif>>

Calls == 1..MaxCalls
Ids == 1..MaxCalls

\* error.message of an absent error, and the messages the code can raise
Undefined == "<undefined>"

ErrorMessage(kind) ==
  CASE kind = "nourl"    -> "DATABASE_URL is not set"
    [] kind = "dump"     -> "Command failed: pg_dump"
    [] kind = "read"     -> "ENOENT: no such file or directory, stat"
    [] kind = "encrypt"  -> "ENOSPC: no space left on device, write"
    [] kind = "enoent"   -> "ENOENT: no such file or directory, open"
    [] kind = "checksum" -> "Checksum mismatch - file is corrupt"
    [] kind = "restore"  -> "Command failed: pg_restore"
    [] kind = "notfound" -> "backup not found"
    [] kind = "notready" -> "backup not ready for restore"
    [] kind = "p2025"    -> "Record to delete does not exist"
    [] kind = "usage"    -> "backup id is required"
    [] kind = "list"     -> "Can't reach database server"
    [] OTHER             -> "error"

\* sha256 hex digest: never empty, one digest per byte sequence
Sha256(data) == <<9>> \o data
EmptyChecksum == <<>>

\* ------------------------------------------------------- encryption key
\* values of BACKUP_ENCRYPTION_KEY: not set, a short one, one of 32 characters
NoKey == ""
ShortKey == "secret"
LongKey == "0123456789abcdef0123456789abcdef"
KeyConfigs == {NoKey, ShortKey, LongKey}
DefaultKey == "default-key"

\* lines 690 and 709: process.env.BACKUP_ENCRYPTION_KEY || 'default-key', the
\* password handed to crypto.scryptSync; no length is checked, nothing throws
keyPassword(envKey) == IF envKey = NoKey THEN DefaultKey ELSE envKey

\* ------------------------------------------------------------ file system
NoPath == <<"", 0>>
SqlPath(id) == <<"sql", id>>          \* backups/<id>.sql
EncPath(id) == <<"enc", id>>          \* backups/<id>.enc
PlainPath(id) == <<"backups", id>>    \* backups/<id>
RestoreTmp(id) == <<"restore", id>>   \* temp/restore_<id>.sql
VerifyTmp(id) == <<"verify", id>>     \* temp/verify_<id>

Paths == {"sql", "enc", "backups", "restore", "verify"} \X Ids

\* encryptedPath.replace('.enc', '')
StripEnc(p) == IF p[1] = "enc" THEN <<"backups", p[2]>> ELSE p

\* a file: partial marks one whose writer was cut short, altered one whose
\* bytes were changed by somebody else after it was written
NoFile == [exists |-> FALSE, data |-> <<>>, partial |-> FALSE, altered |-> FALSE]
FileOf(data) ==
  [exists |-> TRUE, data |-> data, partial |-> FALSE, altered |-> FALSE]
PartialOf(data) ==
  [exists |-> TRUE, data |-> data, partial |-> TRUE, altered |-> FALSE]

pathExists(f, p) == p \in DOMAIN f /\ f[p].exists
remove(f, p) == IF p \in DOMAIN f THEN [f EXCEPT ![p] = NoFile] ELSE f

\* ------------------------------------------------------------- metadata
NewMetadata(id, type, t) ==
  [id |-> id, timestamp |-> t, type |-> type, status |-> "pending",
   size |-> 0, checksum |-> EmptyChecksum, encrypted |-> TRUE,
   error |-> Undefined, path |-> NoPath]

NoMetadata == NewMetadata(0, "none", 0)

\* lines 259-263: the fields set from performBackup's result
markCompleted(m, size, checksum, path) ==
  [m EXCEPT !.status = "completed", !.size = size,
            !.checksum = checksum, !.path = path]

\* lines 270-271: the catch block of the three create operations
markFailedNoMessage(m, message) == [m EXCEPT !.status = "failed"]
markFailed(m, message) == [m EXCEPT !.status = "failed", !.error = message]

RowOf(d, backupId) == CHOOSE r \in d : r.backupId = backupId
HasRow(d, backupId) == \E r \in d : r.backupId = backupId

\* prisma.backupMetadata.upsert, keyed by backupId.  In the update branch
\* an undefined error leaves the stored error as it is; timestamp, type and
\* encrypted are not part of the update.
upsertOverwriting(d, m, rid) ==
  {r \in d : r.backupId # m.id} \cup
  {[rowId |-> IF HasRow(d, m.id) THEN RowOf(d, m.id).rowId ELSE rid,
    backupId |-> m.id, timestamp |-> m.timestamp,
    type |-> m.type, status |-> m.status, size |-> m.size,
    checksum |-> m.checksum, encrypted |-> m.encrypted,
    error |-> m.error, path |-> m.path]}
upsert(d, m, rid) ==
  IF HasRow(d, m.id)
    THEN LET r == RowOf(d, m.id)
         IN  (d \ {r}) \cup
             {[r EXCEPT !.status = m.status, !.size = m.size,
                        !.checksum = m.checksum, !.path = m.path,
                        !.error = IF m.error = Undefined THEN r.error
                                  ELSE m.error]}
    ELSE d \cup
         {[rowId |-> rid, backupId |-> m.id, timestamp |-> m.timestamp,
           type |-> m.type, status |-> m.status, size |-> m.size,
           checksum |-> m.checksum, encrypted |-> m.encrypted,
           error |-> m.error, path |-> m.path]}

\* getBackupMetadata: findUnique by backupId, mapped to id = row.backupId
getBackupMetadata(d, backupId) ==
  LET r == RowOf(d, backupId)
  IN  [id |-> r.backupId, timestamp |-> r.timestamp, type |-> r.type,
       status |-> r.status, size |-> r.size, checksum |-> r.checksum,
       encrypted |-> r.encrypted, error |-> r.error, path |-> r.path]

\* deleteBackup as one step: look the record up by backupId, remove the file
\* at its path when it exists, then prisma delete({ where: { id: backupId } }),
\* which throws when no row has that primary key.
deleteBackup(d, f, backupId) ==
  IF ~HasRow(d, backupId)
    THEN [db |-> d, files |-> f, threw |-> TRUE]
    ELSE LET backup == getBackupMetadata(d, backupId)
             f2 == IF pathExists(f, backup.path) THEN remove(f, backup.path)
                   ELSE f
         IN  IF \E r \in d : r.rowId = backupId
               THEN [db |-> {r \in d : r.rowId # backupId}, files |-> f2,
                     threw |-> FALSE]
               ELSE [db |-> d, files |-> f2, threw |-> TRUE]

\* the loop of cleanupOldBackups: deleteBackup(backup.id) for each old
\* completed row, in the order findMany returned them; the first throw ends it
RECURSIVE cleanupLoop(_, _, _)
cleanupLoop(old, d, f) ==
  IF old = {} THEN [db |-> d, files |-> f, threw |-> FALSE]
  ELSE LET r == CHOOSE x \in old : \A y \in old : x.rowId >= y.rowId
           res == deleteBackup(d, f, r.rowId)
       IN  IF res.threw THEN res
           ELSE cleanupLoop(old \ {r}, res.db, res.files)

oldBackups(d, t) ==
  {r \in d : r.timestamp < t - RetentionDays /\ r.status = "completed"}

\* cleanupOldBackups without its try/catch: the error of the loop escapes
cleanupOldBackupsNoCatch(d, f, t) == cleanupLoop(oldBackups(d, t), d, f)

\* cleanupOldBackups: the try/catch (lines 732, 751-753) logs and swallows
cleanupOldBackups(d, f, t) ==
  [cleanupLoop(oldBackups(d, t), d, f) EXCEPT !.threw = FALSE]

\* getBackupList (lines 455-489): the rows, newest first, each mapped to
\* id = row id and backupId = backupId.  The `take: 100` of the query is
\* beyond the number of rows the bounds allow, and the order is left out.
getBackupList(d) ==
  {[id |-> r.rowId, backupId |-> r.backupId, timestamp |-> r.timestamp,
    type |-> r.type, status |-> r.status, size |-> r.size,
    checksum |-> r.checksum, encrypted |-> r.encrypted,
    error |-> r.error, path |-> r.path] : r \in d}

\* getBackupStats
getBackupStats ==
  [totalBackups |-> Cardinality(db),
   successfulBackups |-> Cardinality({r \in db : r.status = "completed"}),
   failedBackups |-> Cardinality({r \in db : r.status = "failed"}),
   activeBackups |-> Cardinality(activeBackups)]

\* ------------------------------------------ front-end notification store
\* lines 56-57: notifications: [], unreadCount: 0
InitNotifications ==
  /\ notifications = <<>>
  /\ unreadCount = 0
  /\ timers = {}
  /\ nextNotif = 1

\* ------------------------------------------------------------------ calls
IdleCall ==
  [op |-> "idle", pc |-> "idle", type |-> "none", id |-> 0,
   metadata |-> NoMetadata, verifyOnly |-> FALSE,
   err |-> Undefined, size |-> 0, checksum |-> EmptyChecksum,
   busyAtStart |-> FALSE, result |-> "none",
   queryFailed |-> FALSE,      \* the lookup of the record threw
   alteredAtStart |-> FALSE,   \* the artifact had been altered at the call
   saveTried |-> FALSE,        \* saveBackupMetadata has been awaited
   saveStored |-> FALSE,       \* ... and its upsert went through
   cli |-> FALSE,              \* the call is a run of scripts/backup-restore.ts
   exit |-> "none",            \* the code that run's process exited with
   report |-> FALSE,           \* the run printed its success message
   cleaned |-> FALSE]          \* the call has run cleanupOldBackups

StoreStates == {<<1>>, <<1, 2, 3, 0, 1>>}
PipelineIVs == {[i \in 1..BlockSize |-> i % 4]}

Init ==
  /\ calls = [c \in Calls |-> IdleCall]
  /\ activeBackups = {}
  /\ db = {}
  /\ files = [p \in Paths |-> NoFile]
  /\ targetStore \in StoreStates
  /\ toolRuns = {}
  /\ now = 0
  /\ nextId = 1
  /\ cpc = "idle" /\ cx = <<>> /\ civ = <<>> /\ cenc = <<>>
  /\ cres = [kind |-> "none", data |-> <<>>]
  /\ ckey = LongKey /\ ckeyUsed = NoKey
  /\ InitNotifications

\* ------------------------------------------------------- create operations
Call(c) == calls[c]
SetCall(c, r) == calls' = [calls EXCEPT ![c] = r]

\* call slots are taken in order (their numbering carries no meaning)
FreeSlot(c) ==
  /\ calls[c].op = "idle"
  /\ \A k \in 1..(c - 1) : calls[k].op # "idle"

\* activeBackups.set(backupId, metadata) / activeBackups.delete(backupId)
activeSet(a, id) == a \cup {id}
activeDeleteKeep(a, id) == a
activeDelete(a, id) == a \ {id}

\* the common opening of the three create operations: generateBackupId, the
\* pending metadata, activeBackups.set; no check of activeBackups is made
BeginCreate(c, type) ==
  /\ FreeSlot(c)
  /\ nextId <= MaxCalls
  /\ SetCall(c, [IdleCall EXCEPT
         !.op = "create", !.pc = "perform", !.type = type, !.id = nextId,
         !.metadata = NewMetadata(nextId, type, now),
         !.busyAtStart = (activeBackups # {})])
  /\ activeBackups' = activeSet(activeBackups, nextId)
  /\ nextId' = nextId + 1
  /\ UNCHANGED <<db, files, targetStore, toolRuns, now, codecVars, notifVars>>

createManualBackup(c) == BeginCreate(c, "manual")
createScheduledBackup(c) == BeginCreate(c, "scheduled")
createAutomaticBackup(c) == BeginCreate(c, "automatic")

\* encryptFile(inputPath, outputPath) on the file system: a fresh iv, the iv
\* then the ciphertext written to outputPath; an 'error' of the output
\* stream rejects and leaves what was written so far
encryptFile(f, inputPath, outputPath, iv, outcome) ==
  CASE outcome = "ok" ->
         [f EXCEPT ![outputPath] = FileOf(EncryptedBytes(iv, f[inputPath].data))]
    [] outcome = "encrypt" ->
         [f EXCEPT ![outputPath] = PartialOf(iv)]
    [] OTHER -> f

\* performBackup's catch, lines 611-617: remove backupPath when it exists
performBackupCleanupNone(f, id) == f
performBackupCleanup(f, id) ==
  IF pathExists(f, SqlPath(id)) THEN remove(f, SqlPath(id)) ELSE f

\* performBackup (lines 556-618) and the assignments of its caller (lines
\* 259-263 on return, 270-271 on throw).  The steps run in order and the
\* first failing one ends the pipeline:
\*   "nourl"    DATABASE_URL is not set
\*   "dump"     pg_dump fails, leaving a partly written backupPath
\*   "read"     fs.stat / fs.readFile of the dump fails
\*   "encrypt"  the output stream of encryptFile fails after the iv
\*   "ok"       the dump is encrypted to encryptedPath.replace('.enc', ''),
\*              backupPath is removed, path = encryptedPath is returned
performBackup(c) ==
  /\ Call(c).op = "create" /\ Call(c).pc = "perform"
  /\ \E iv \in PipelineIVs,
        outcome \in {"ok", "nourl", "dump", "read", "encrypt"} :
       LET id == Call(c).id
           sql == SqlPath(id)
           encryptedPath == EncPath(id)
           dumped == [files EXCEPT ![sql] =
                        IF outcome = "dump"
                          THEN PartialOf(SubSeq(targetStore, 1, 1))
                          ELSE FileOf(targetStore)]
           size == Len(dumped[sql].data)
           checksum == Sha256(dumped[sql].data)
       IN  IF outcome = "ok"
             THEN /\ files' = remove(encryptFile(dumped, sql,
                                        StripEnc(encryptedPath), iv, "ok"), sql)
                  /\ SetCall(c, [Call(c) EXCEPT !.pc = "save",
                        !.size = size, !.checksum = checksum,
                        !.metadata = markCompleted(Call(c).metadata, size,
                                                   checksum, encryptedPath)])
             ELSE /\ files' =
                       IF outcome = "nourl" THEN files
                       ELSE performBackupCleanup(
                              encryptFile(dumped, sql, StripEnc(encryptedPath),
                                          iv, outcome), id)
                  /\ SetCall(c, [Call(c) EXCEPT !.pc = "saveFailed",
                        !.err = ErrorMessage(outcome),
                        !.metadata = markFailed(Call(c).metadata,
                                                ErrorMessage(outcome))])
  /\ UNCHANGED <<activeBackups, db, targetStore, toolRuns, now, nextId, codecVars, notifVars>>

\* saveBackupMetadata: the upsert; its failure is logged and swallowed
saveBackupMetadataSkipped(c, next) ==
  /\ db' = db
  /\ SetCall(c, [Call(c) EXCEPT !.pc = next])
saveBackupMetadata(c, next) ==
  \E stored \in BOOLEAN :
    /\ IF stored
         THEN db' = upsert(db, Call(c).metadata, 0 - Call(c).id)
         ELSE db' = db
    /\ SetCall(c, [Call(c) EXCEPT !.pc = next, !.saveTried = TRUE,
                                  !.saveStored = stored])

\* what follows the save in the try block: cleanupOldBackups in
\* createScheduledBackup (line 310), the return in the other two
afterSaveNoCleanup(type) == "finally"
afterSave(type) == IF type = "scheduled" THEN "cleanup" ELSE "finally"

\* lines 265, 309, 351
saveCompleted(c) ==
  /\ Call(c).op = "create" /\ Call(c).pc = "save"
  /\ saveBackupMetadata(c, afterSave(Call(c).type))
  /\ UNCHANGED <<activeBackups, files, targetStore, toolRuns, now, nextId,
                 codecVars, notifVars>>

\* line 310: the retention pass inside the try of createScheduledBackup; an
\* error escaping it would reach the catch of lines 313-317
scheduledCleanup(c) ==
  /\ Call(c).op = "create" /\ Call(c).pc = "cleanup"
  /\ LET res == cleanupOldBackups(db, files, now)
     IN  /\ db' = res.db
         /\ files' = res.files
         /\ IF res.threw
              THEN SetCall(c, [Call(c) EXCEPT !.pc = "saveFailed",
                     !.cleaned = TRUE,
                     !.err = ErrorMessage("notfound"),
                     !.metadata = markFailed(Call(c).metadata,
                                             ErrorMessage("notfound"))])
              ELSE SetCall(c, [Call(c) EXCEPT !.pc = "finally",
                                              !.cleaned = TRUE])
  /\ UNCHANGED <<activeBackups, targetStore, toolRuns, now, nextId, codecVars, notifVars>>

\* lines 272, 316, 358
saveFailed(c) ==
  /\ Call(c).op = "create" /\ Call(c).pc = "saveFailed"
  /\ saveBackupMetadata(c, "finally")
  /\ UNCHANGED <<activeBackups, files, targetStore, toolRuns, now, nextId,
                 codecVars, notifVars>>

\* the catch blocks: lines 274 and 360 are `throw error`, the catch of
\* createScheduledBackup (lines 313-318) has none
rethrowsAlways(type) == TRUE
rethrows(type) == type # "scheduled"

\* the finally block, then return metadata / throw error
createFinally(c) ==
  /\ Call(c).op = "create" /\ Call(c).pc = "finally"
  /\ activeBackups' = activeDelete(activeBackups, Call(c).id)
  /\ SetCall(c, [Call(c) EXCEPT !.pc = "done",
        !.result = IF Call(c).metadata.status = "failed"
                      /\ rethrows(Call(c).type)
                     THEN "threw" ELSE "returned"])
  /\ UNCHANGED <<db, files, targetStore, toolRuns, now, nextId, codecVars, notifVars>>

\* ------------------------------------------------------------------ restore
\* line 385: which branch restoreBackup takes
takesVerifyBranchNever(verifyOnly) == FALSE
takesVerifyBranch(verifyOnly) == verifyOnly

scratchPath(c) ==
  IF takesVerifyBranch(Call(c).verifyOnly) THEN VerifyTmp(Call(c).id)
  ELSE RestoreTmp(Call(c).id)

\* getBackupMetadata as restoreBackup sees it (lines 790-814): the record,
\* or null when no row has the backupId or when the query throws (the catch
\* of lines 811-813 returns null)
findBackup(d, backupId, queryOk) ==
  IF queryOk /\ HasRow(d, backupId) THEN getBackupMetadata(d, backupId)
  ELSE NoMetadata

\* line 373: if (!backup)
isMissingNever(backup) == FALSE
isMissing(backup) == backup = NoMetadata

\* line 377: if (backup.status !== 'completed')
isNotCompletedNever(backup) == FALSE
isNotCompleted(backup) == backup.status # "completed"

\* the artifact of a backup, wherever it lies, has been altered
artifactAltered(f, id) ==
  \/ pathExists(f, EncPath(id)) /\ f[EncPath(id)].altered
  \/ pathExists(f, PlainPath(id)) /\ f[PlainPath(id)].altered

\* restoreBackup, lines 369-383: lookup, the not-found and not-completed
\* rejections; nothing else is checked.  The result is the call's state
\* after these lines.
restoreEntry(base, backup) ==
  IF isMissing(backup)
    THEN [base EXCEPT !.pc = "done", !.result = "threw",
                      !.err = ErrorMessage("notfound")]
  ELSE IF isNotCompleted(backup)
    THEN [base EXCEPT !.pc = "done", !.result = "threw",
                      !.err = ErrorMessage("notready")]
  ELSE [base EXCEPT !.pc = "decrypt", !.metadata = backup]

restoreBackup(c, backupId, verifyOnly, dropExisting) ==
  /\ FreeSlot(c)
  /\ \E queryOk \in BOOLEAN :
       SetCall(c, restoreEntry(
         [IdleCall EXCEPT !.op = "restore", !.id = backupId,
            !.verifyOnly = verifyOnly,
            !.busyAtStart = (activeBackups # {}),
            !.queryFailed = ~queryOk,
            !.alteredAtStart = artifactAltered(files, backupId)],
         findBackup(db, backupId, queryOk)))
  /\ UNCHANGED <<activeBackups, db, files, targetStore, toolRuns, now, nextId,
                 codecVars, notifVars>>

\* ------------------------------------- scripts/backup-restore.ts (the CLI)
\* process.argv[2]: absent, a backupId, or the id of a row
NoArg == 0
RowIds == {0 - i : i \in Ids}
CliArgs == {NoArg} \cup Ids \cup RowIds

\* line 26: backups.find(b => b.id === backupId)
cliFind(d, arg) == {b \in getBackupList(d) : b.id = arg}

\* console.error(...); process.exit(1)
cliFail(call, kind) ==
  [call EXCEPT !.pc = "done", !.err = ErrorMessage(kind), !.exit = "1"]

\* the script's inner performRestore (lines 69-89) around the service call:
\* the success message and app.close() when restoreBackup resolved,
\* process.exit(1) in the catch when it rejected
cliAfterService(call) ==
  IF ~call.cli \/ call.pc # "done" THEN call
  ELSE IF call.result = "returned"
    THEN [call EXCEPT !.report = TRUE, !.exit = "0"]
  ELSE [call EXCEPT !.exit = "1"]

\* runBackupRestore, lines 5-95.  confirm is the answer typed when
\* NODE_ENV is development ("none" otherwise).  With --verify-only the
\* script logs that verification starts (lines 44-45) and calls nothing
\* more: performRestore is reached from the else branch only.
runBackupRestore(c, arg, verifyOnly, confirm) ==
  /\ FreeSlot(c)
  /\ \E listOk \in BOOLEAN, queryOk \in BOOLEAN :
       LET base == [IdleCall EXCEPT !.op = "cli", !.cli = TRUE, !.id = arg,
                                   !.verifyOnly = verifyOnly]
           found == cliFind(db, arg)
       IN  SetCall(c,
             IF arg = NoArg THEN cliFail(base, "usage")
             ELSE IF ~listOk THEN cliFail(base, "list")
             ELSE IF found = {} THEN cliFail(base, "notfound")
             ELSE IF \E b \in found : b.status # "completed"
               THEN cliFail(base, "notready")
             ELSE IF verifyOnly THEN [base EXCEPT !.pc = "done"]
             ELSE IF confirm = "no"
               THEN [base EXCEPT !.pc = "done", !.exit = "0"]
             ELSE cliAfterService(restoreEntry(
                    [base EXCEPT !.op = "restore", !.queryFailed = ~queryOk,
                       !.alteredAtStart = artifactAltered(files, arg)],
                    findBackup(db, arg, queryOk))))
  /\ UNCHANGED <<activeBackups, db, files, targetStore, toolRuns, now, nextId,
                 codecVars, notifVars>>

\* decryptFile(backup.path, tempPath) in verifyBackup (line 673) and in
\* performRestore (line 631).  createWriteStream creates the scratch file;
\* a missing input rejects through input.on('error'); otherwise the outcome
\* of the stream is DecryptedBytes.
decryptStep(c) ==
  /\ Call(c).op = "restore" /\ Call(c).pc = "decrypt"
  /\ LET tmp == scratchPath(c)
         src == Call(c).metadata.path
     IN  IF ~pathExists(files, src)
           THEN /\ files' = [files EXCEPT ![tmp] = FileOf(<<>>)]
                /\ SetCall(c, [Call(c) EXCEPT !.pc = "finally",
                                 !.err = ErrorMessage("enoent")])
           ELSE LET r == DecryptedBytes(files[src].data)
                IN  IF r.kind = "ok"
                      THEN /\ files' = [files EXCEPT ![tmp] = FileOf(r.data)]
                           /\ SetCall(c, [Call(c) EXCEPT !.pc =
                                 IF takesVerifyBranch(Call(c).verifyOnly)
                                   THEN "compare" ELSE "pgrestore"])
                      ELSE /\ files' = [files EXCEPT ![tmp] = PartialOf(<<>>)]
                           /\ SetCall(c, [Call(c) EXCEPT !.pc = r.kind])
  /\ UNCHANGED <<activeBackups, db, targetStore, toolRuns, now, nextId, codecVars, notifVars>>

\* verifyBackup, lines 674-679: read the scratch file, compare digests
verifyCompare(c) ==
  /\ Call(c).op = "restore" /\ Call(c).pc = "compare"
  /\ LET tmp == scratchPath(c)
     IN  SetCall(c, [Call(c) EXCEPT !.pc = "finally", !.err =
           IF ~pathExists(files, tmp) THEN ErrorMessage("enoent")
           ELSE IF Sha256(files[tmp].data) # Call(c).metadata.checksum
             THEN ErrorMessage("checksum")
           ELSE Undefined])
  /\ UNCHANGED <<activeBackups, db, files, targetStore, toolRuns, now, nextId,
                 codecVars, notifVars>>

\* performRestore, lines 634-656: DATABASE_URL, then pg_restore on the
\* scratch file; the tool loads an archive it can read, or fails
performRestoreTool(c) ==
  /\ Call(c).op = "restore" /\ Call(c).pc = "pgrestore"
  /\ \E outcome \in {"run", "nourl"} :
       LET tmp == scratchPath(c)
       IN  IF outcome = "nourl"
             THEN /\ UNCHANGED <<toolRuns, targetStore>>
                  /\ SetCall(c, [Call(c) EXCEPT !.pc = "finally",
                                   !.err = ErrorMessage("nourl")])
             ELSE /\ toolRuns' = toolRuns \cup {c}
                  /\ IF pathExists(files, tmp) /\ files[tmp].data \in StoreStates
                       THEN /\ targetStore' = files[tmp].data
                            /\ SetCall(c, [Call(c) EXCEPT !.pc = "finally"])
                       ELSE /\ targetStore' = targetStore
                            /\ SetCall(c, [Call(c) EXCEPT !.pc = "finally",
                                             !.err = ErrorMessage("restore")])
  /\ UNCHANGED <<activeBackups, db, files, now, nextId, codecVars, notifVars>>

\* the finally blocks of verifyBackup and performRestore, then the rethrow
\* of restoreBackup's catch
restoreFinally(c) ==
  /\ Call(c).op = "restore" /\ Call(c).pc = "finally"
  /\ files' = IF pathExists(files, scratchPath(c))
                THEN remove(files, scratchPath(c)) ELSE files
  /\ SetCall(c, cliAfterService([Call(c) EXCEPT !.pc = "done",
        !.result = IF Call(c).err = Undefined THEN "returned" ELSE "threw"]))
  /\ UNCHANGED <<activeBackups, db, targetStore, toolRuns, now, nextId, codecVars, notifVars>>

\* An 'error' event on a stream without listener is an uncaught exception:
\* unless a handler keeps the process alive (the call then stays pending for
\* ever), the process ends, and with it every call in flight and the
\* in-memory activeBackups.
\* A run of the restore script is a process of its own, which exits with
\* code 1 on an uncaught exception.
sameProcess(k, c) == IF calls[c].cli THEN k = c ELSE ~calls[k].cli

processCrash(c) ==
  /\ Call(c).pc = "unhandled"
  /\ calls' = [k \in Calls |->
        IF calls[k].op # "idle" /\ calls[k].pc # "done" /\ sameProcess(k, c)
          THEN [calls[k] EXCEPT !.pc = "crashed",
                  !.exit = IF calls[k].cli THEN "1" ELSE "none"]
          ELSE calls[k]]
  /\ activeBackups' = IF Call(c).cli THEN activeBackups ELSE {}
  /\ UNCHANGED <<db, files, targetStore, toolRuns, now, nextId, codecVars, notifVars>>

\* ------------------------------------------------------------------- delete
deleteBackupCall(c, backupId) ==
  /\ FreeSlot(c)
  /\ LET res == deleteBackup(db, files, backupId)
     IN  /\ db' = res.db
         /\ files' = res.files
         /\ SetCall(c, [IdleCall EXCEPT !.op = "delete", !.id = backupId,
               !.pc = "done",
               !.result = IF res.threw THEN "threw" ELSE "returned",
               !.err = IF ~res.threw THEN Undefined
                       ELSE IF HasRow(db, backupId) THEN ErrorMessage("p2025")
                       ELSE ErrorMessage("notfound")])
  /\ UNCHANGED <<activeBackups, targetStore, toolRuns, now, nextId, codecVars, notifVars>>

\* -------------------------------------------------------------- environment
\* a day passes
Tick ==
  /\ now < MaxClock
  /\ now' = now + 1
  /\ UNCHANGED <<calls, activeBackups, db, files, targetStore, toolRuns, nextId,
                 codecVars, notifVars>>

\* The artifact directory is shared with the operator: the file the
\* encryption step wrote, backups/<id>, is renamed to the path the record
\* holds, backups/<id>.enc.
operatorRename(id) ==
  /\ pathExists(files, PlainPath(id))
  /\ ~files[PlainPath(id)].partial
  /\ \A c \in Calls : calls[c].id = id => calls[c].pc \in {"done", "crashed"}
  /\ files' = [files EXCEPT ![EncPath(id)] = files[PlainPath(id)],
                            ![PlainPath(id)] = NoFile]
  /\ UNCHANGED <<calls, activeBackups, db, targetStore, toolRuns, now, nextId,
                 codecVars, notifVars>>

\* The operator, or a failing disk, changes one byte of a stored artifact
\* (one bit of it is flipped) while no call is working on that backup.
flipBit(b) == (b + 2) % 4

\* the bytes that get changed: the first (in the iv) or the last (in the
\* final cipher block)
TamperAt(n) == {1, n}

operatorTamper(id, p) ==
  /\ p \in Paths /\ p[2] = id /\ p[1] \in {"enc", "backups"}
  /\ pathExists(files, p)
  /\ ~files[p].partial /\ ~files[p].altered
  /\ \A c \in Calls : calls[c].id = id => calls[c].pc \in {"done", "crashed"}
  /\ \E i \in TamperAt(Len(files[p].data)) :
       files' = [files EXCEPT ![p] =
                   [@ EXCEPT !.data = [@ EXCEPT ![i] = flipBit(@)],
                             !.altered = TRUE]]
  /\ UNCHANGED <<calls, activeBackups, db, targetStore, toolRuns, now, nextId,
                 codecVars, notifVars>>

Next ==
  \/ \E c \in Calls : createManualBackup(c)
  \/ \E c \in Calls : createScheduledBackup(c)
  \/ \E c \in Calls : createAutomaticBackup(c)
  \/ \E c \in Calls : performBackup(c)
  \/ \E c \in Calls : saveCompleted(c)
  \/ \E c \in Calls : scheduledCleanup(c)
  \/ \E c \in Calls : saveFailed(c)
  \/ \E c \in Calls : createFinally(c)
  \/ \E c \in Calls, id \in Ids, v \in BOOLEAN, d \in BOOLEAN :
        restoreBackup(c, id, v, d)
  \/ \E c \in Calls : decryptStep(c)
  \/ \E c \in Calls : verifyCompare(c)
  \/ \E c \in Calls : performRestoreTool(c)
  \/ \E c \in Calls : restoreFinally(c)
  \/ \E c \in Calls : processCrash(c)
  \/ \E c \in Calls, id \in Ids : deleteBackupCall(c, id)
  \/ \E c \in Calls, arg \in CliArgs, v \in BOOLEAN,
        confirm \in {"none", "yes", "no"} : runBackupRestore(c, arg, v, confirm)
  \/ \E id \in Ids : operatorRename(id)
  \/ \E id \in Ids, p \in Paths : operatorTamper(id, p)
  \/ Tick

Spec == Init /\ [][Next]_vars

\* ------------------------------------------ the encrypt/decrypt round trip
ByteSeqs == UNION {[1..n -> Byte] : n \in 0..MaxLen}
IVs == [1..BlockSize -> Byte]

InitCodec ==
  /\ calls = [c \in Calls |-> IdleCall]
  /\ activeBackups = {}
  /\ db = {}
  /\ files = [p \in Paths |-> NoFile]
  /\ targetStore = <<1>>
  /\ toolRuns = {}
  /\ now = 0
  /\ nextId = 1
  /\ cpc = "plain"
  /\ cx \in ByteSeqs
  /\ civ \in IVs
  /\ cenc = <<>>
  /\ cres = [kind |-> "none", data |-> <<>>]
  /\ ckey \in KeyConfigs
  /\ ckeyUsed = NoKey
  /\ InitNotifications

\* testBackup, line 417: encryptFile(tempPath, `${testBackupId}_encrypted`)
testEncrypt ==
  /\ cpc = "plain"
  /\ ckeyUsed' = keyPassword(ckey)
  /\ cenc' = EncryptedBytes(civ, cx)
  /\ cpc' = "encrypted"
  /\ UNCHANGED <<cx, civ, cres, ckey, orchVars, notifVars>>

\* testBackup, line 420: decryptFile(encryptedPath, ...)
testDecrypt ==
  /\ cpc = "encrypted"
  /\ ckeyUsed' = keyPassword(ckey)
  /\ cres' = DecryptedBytes(cenc)
  /\ cpc' = "decrypted"
  /\ UNCHANGED <<cx, civ, cenc, ckey, orchVars, notifVars>>

NextCodec == testEncrypt \/ testDecrypt

SpecCodec == InitCodec /\ [][NextCodec]_vars

\* ------------------------------------ saveBackupMetadata on any metadata
\* metadata objects handed to saveBackupMetadata: a backupId, a timestamp,
\* one of two types, either encrypted flag, a terminal status with its error
MetadataInputs ==
  {[NewMetadata(i, ty, t) EXCEPT
      !.status = st, !.encrypted = e,
      !.error = IF st = "failed" THEN ErrorMessage("dump") ELSE Undefined] :
     i \in Ids, t \in 0..MaxClock,
     ty \in {"manual", "scheduled"},
     st \in {"completed", "failed"}, e \in BOOLEAN}

InitUpsert == Init /\ targetStore = <<1>>

\* saveBackupMetadata(metadata), lines 756-788; call slot 1 keeps the
\* metadata of the last call
saveMetadata(m) ==
  /\ \E stored \in BOOLEAN :
       /\ db' = IF stored THEN upsert(db, m, 0 - m.id) ELSE db
       /\ calls' = [calls EXCEPT ![1] =
            [IdleCall EXCEPT !.op = "save", !.pc = "done", !.id = m.id,
                             !.metadata = m, !.saveTried = TRUE,
                             !.saveStored = stored]]
  /\ UNCHANGED <<activeBackups, files, targetStore, toolRuns, now, nextId,
                 codecVars, notifVars>>

NextUpsert == \E m \in MetadataInputs : saveMetadata(m)

SpecUpsert == InitUpsert /\ [][NextUpsert]_vars

\* --------------------------------------- restores of one stored backup
\* The service some time after a manual create of backupId 1 completed (the
\* calls of that time are over): its row, and the artifact where
\* performBackup wrote it.  Restore and verify calls then run side by side.
InitRestore ==
  /\ calls = [c \in Calls |-> IdleCall]
  /\ activeBackups = {}
  /\ targetStore \in StoreStates
  /\ \E iv \in PipelineIVs :
       files = [p \in Paths |->
                  IF p = PlainPath(1)
                    THEN FileOf(EncryptedBytes(iv, targetStore)) ELSE NoFile]
  /\ db = upsert({}, markCompleted(NewMetadata(1, "manual", 0),
                    Len(targetStore), Sha256(targetStore), EncPath(1)), 0 - 1)
  /\ toolRuns = {}
  /\ now = 0
  /\ nextId = 2
  /\ cpc = "idle" /\ cx = <<>> /\ civ = <<>> /\ cenc = <<>>
  /\ cres = [kind |-> "none", data |-> <<>>]
  /\ ckey = LongKey /\ ckeyUsed = NoKey
  /\ InitNotifications

NextRestore ==
  \/ \E c \in Calls, id \in Ids, v \in BOOLEAN, d \in BOOLEAN :
        restoreBackup(c, id, v, d)
  \/ \E c \in Calls : decryptStep(c)
  \/ \E c \in Calls : verifyCompare(c)
  \/ \E c \in Calls : performRestoreTool(c)
  \/ \E c \in Calls : restoreFinally(c)
  \/ \E c \in Calls : processCrash(c)
  \/ \E id \in Ids : operatorRename(id)

SpecRestore == InitRestore /\ [][NextRestore]_vars

\* ------------------------------------------ front-end notification store
\* frontend-customer/src/store/notifications/notificationStore.ts.  A
\* notification is its id and its read flag; ids are fresh (Date.now() and
\* a random suffix).
DefaultDuration == 5000
Durations == {0, DefaultDuration}
NotifIds == 1..MaxNotifs

Max(a, b) == IF a > b THEN a ELSE b

findIndex(ns, id) ==
  IF \E i \in 1..Len(ns) : ns[i].id = id
    THEN CHOOSE i \in 1..Len(ns) :
           ns[i].id = id /\ \A j \in 1..(i - 1) : ns[j].id # id
    ELSE 0

\* state.notifications.filter(n => n.id !== id)
withoutId(ns, id) ==
  LET NotId(n) == n.id # id
  IN  SelectSeq(ns, NotId)

\* state.notifications.filter(n => !n.read)
unreadOnly(ns) ==
  LET Unread(n) == ~n.read
  IN  SelectSeq(ns, Unread)

\* addNotification, lines 60-99: read: false, unreadCount + 1, and the
\* setTimeout of the auto-read when the duration is positive
addNotification(duration) ==
  /\ nextNotif <= MaxNotifs
  /\ notifications' = <<[id |-> nextNotif, read |-> FALSE]>> \o notifications
  /\ unreadCount' = unreadCount + 1
  /\ timers' = IF duration > 0 THEN timers \cup {nextNotif} ELSE timers
  /\ nextNotif' = nextNotif + 1
  /\ UNCHANGED <<orchVars, codecVars>>

\* line 112: the count after a removal
countAfterRemoveAlways(count, wasUnread) == Max(0, count - 1)
countAfterRemove(count, wasUnread) ==
  IF wasUnread THEN Max(0, count - 1) ELSE count

\* removeNotification, lines 101-115
removeNotification(id) ==
  /\ LET i == findIndex(notifications, id)
     IN  IF i = 0 THEN UNCHANGED <<notifications, unreadCount>>
         ELSE /\ notifications' = withoutId(notifications, id)
              /\ unreadCount' = countAfterRemove(unreadCount,
                                                 ~notifications[i].read)
  /\ UNCHANGED <<timers, nextNotif, orchVars, codecVars>>

\* the state update of markAsRead, lines 117-139
markRead(id) ==
  LET i == findIndex(notifications, id)
  IN  IF i = 0 \/ notifications[i].read
        THEN UNCHANGED <<notifications, unreadCount>>
        ELSE /\ notifications' = [notifications EXCEPT ![i].read = TRUE]
             /\ unreadCount' = Max(0, unreadCount - 1)

markAsRead(id) ==
  /\ markRead(id)
  /\ UNCHANGED <<timers, nextNotif, orchVars, codecVars>>

\* lines 95-97: the timer of addNotification fires, get().markAsRead(id)
timerFires(id) ==
  /\ id \in timers
  /\ timers' = timers \ {id}
  /\ markRead(id)
  /\ UNCHANGED <<nextNotif, orchVars, codecVars>>

\* markAllAsRead, lines 141-146
markAllAsRead ==
  /\ notifications' = [i \in 1..Len(notifications) |->
                         [notifications[i] EXCEPT !.read = TRUE]]
  /\ unreadCount' = 0
  /\ UNCHANGED <<timers, nextNotif, orchVars, codecVars>>

\* clearNotifications, lines 148-150
clearNotifications ==
  /\ notifications' = <<>>
  /\ unreadCount' = 0
  /\ UNCHANGED <<timers, nextNotif, orchVars, codecVars>>

\* clearReadNotifications, lines 152-157
clearReadNotifications ==
  /\ notifications' = unreadOnly(notifications)
  /\ unreadCount' = Len(unreadOnly(notifications))
  /\ UNCHANGED <<timers, nextNotif, orchVars, codecVars>>

InitNotif == Init /\ targetStore = <<1>>

NextNotif ==
  \/ \E d \in Durations : addNotification(d)
  \/ \E id \in NotifIds : removeNotification(id)
  \/ \E id \in NotifIds : markAsRead(id)
  \/ \E id \in NotifIds : timerFires(id)
  \/ markAllAsRead
  \/ clearNotifications
  \/ clearReadNotifications

SpecNotif == InitNotif /\ [][NextNotif]_vars

\* ------------------------------------------------------------------ claims
CreateCalls == {c \in Calls : calls[c].op = "create"}
RestoreCalls == {c \in Calls : calls[c].op = "restore"}
Ended(c) == calls[c].pc = "done"

\* a call that is inside its dump or restore pipeline
InPipeline(c) ==
  \/ calls[c].op = "create" /\ calls[c].pc = "perform"
  \/ calls[c].op = "restore" /\ calls[c].pc \in {"decrypt", "compare", "pgrestore"}

ConcurrencyMessage == "another backup is running"

\* C1: a create issued while another backup is running fails with a
\* concurrency error: it never enters the pipeline and writes no record.
C1_SecondCreateRejected ==
  \A c \in CreateCalls :
    calls[c].busyAtStart =>
      /\ Ended(c)
      /\ calls[c].result = "threw"
      /\ calls[c].err = ConcurrencyMessage
      /\ ~HasRow(db, calls[c].id)

\* C2: at most one dump or restore pipeline is in progress at any time.
C2_AtMostOnePipeline ==
  Cardinality({c \in Calls : InPipeline(c)}) <= 1

\* C3: every stored record with status completed has a non-empty checksum,
\* size > 0 and an artifact file existing at its path.
C3_CompletedHasArtifact ==
  \A r \in db :
    r.status = "completed" =>
      /\ r.checksum # EmptyChecksum
      /\ r.size > 0
      /\ pathExists(files, r.path)

\* C4: a restore with verifyOnly = true never reaches the restore tool,
\* whatever its outcome.
C4_VerifyOnlyNeverRestores ==
  \A c \in RestoreCalls :
    calls[c].verifyOnly =>
      /\ c \notin toolRuns
      /\ calls[c].pc # "pgrestore"

\* a verify-only call that decrypted, compared and ended with a mismatch
C4_Witness ==
  \E c \in RestoreCalls :
    /\ calls[c].verifyOnly
    /\ Ended(c)
    /\ calls[c].err = ErrorMessage("checksum")

\* C5: when a restore has invoked the restore tool, a safety backup of type
\* automatic has been created before.
C5_SafetyBackupFirst ==
  \A c \in toolRuns :
    \E k \in CreateCalls :
      /\ calls[k].type = "automatic"
      /\ calls[k].metadata.status = "completed"

\* C6: decrypting the output of encrypt(x) terminates and yields x.
C6_RoundTrip ==
  cpc = "decrypted" => (cres.kind = "ok" /\ cres.data = cx)

\* C7: once a run's record is stored as failed, no file of that run is left
\* on disk, and no record's path designates a partly written file.
C7_NoPartialArtifact ==
  /\ \A r \in db :
       r.status = "failed" =>
         /\ ~pathExists(files, SqlPath(r.backupId))
         /\ ~pathExists(files, PlainPath(r.backupId))
         /\ ~pathExists(files, EncPath(r.backupId))
  /\ \A r \in db : pathExists(files, r.path) => ~files[r.path].partial

\* C8: when a create call has ended its entry is out of the active set, and
\* when no create is in progress stats reports activeBackups = 0.
C8_SlotReleased ==
  /\ \A c \in CreateCalls : Ended(c) => calls[c].id \notin activeBackups
  /\ (\A c \in CreateCalls : calls[c].pc \in {"done", "crashed"})
       => getBackupStats.activeBackups = 0

\* a create that ended by a failure, with nothing left in the active set
C8_Witness ==
  \E c \in CreateCalls :
    /\ Ended(c)
    /\ calls[c].result = "threw"
    /\ activeBackups = {}

\* C9: once a record is completed or failed, in memory or stored, no step
\* changes that status.
Terminal == {"completed", "failed"}

C9_StatusStays ==
  /\ \A r \in db : \A q \in db' :
       (r.status \in Terminal /\ q.backupId = r.backupId) => q.status = r.status
  /\ \A c \in Calls :
       (calls[c].op = "create" /\ calls[c].metadata.status \in Terminal)
         => calls'[c].metadata.status = calls[c].metadata.status

C9_TerminalIsFinal == [][C9_StatusStays]_vars

\* a scheduled backup that was stored completed, went through the retention
\* pass with an older completed record present, and ended
C9_Witness ==
  \E c \in CreateCalls :
    /\ calls[c].type = "scheduled"
    /\ Ended(c)
    /\ HasRow(db, calls[c].id)
    /\ RowOf(db, calls[c].id).status = "completed"
    /\ oldBackups(db, now) # {}

\* C10: a record's error is present and non-empty exactly when its status
\* is failed.
HasError(e) == e # Undefined /\ e # ""

C10_ErrorIffFailed ==
  /\ \A r \in db : (r.status = "failed") <=> HasError(r.error)
  /\ \A c \in CreateCalls :
       (calls[c].metadata.status = "failed") <=> HasError(calls[c].metadata.error)

\* a stored failed record carrying its cause
C10_Witness ==
  \E r \in db : r.status = "failed" /\ HasError(r.error)

\* C11: a delete call on an existing completed record ends with the row and
\* the artifact file both gone, or, if it failed, both still present.
DeleteCalls == {c \in Calls : calls[c].op = "delete"}
ArtifactOnDisk(id) ==
  pathExists(files, EncPath(id)) \/ pathExists(files, PlainPath(id))

C11_DeleteTogether ==
  \A c \in DeleteCalls :
    (Ended(c) /\ calls[c].err # ErrorMessage("notfound")) =>
      IF calls[c].result = "returned"
        THEN ~HasRow(db, calls[c].id) /\ ~ArtifactOnDisk(calls[c].id)
        ELSE /\ HasRow(db, calls[c].id)
             /\ RowOf(db, calls[c].id).status = "completed"
                  => ArtifactOnDisk(calls[c].id)

\* C12: a retention pass removes exactly the completed rows older than the
\* window, each with its artifact file, and nothing else.
RetentionPass(c) ==
  /\ calls[c].op = "create" /\ calls[c].pc = "cleanup"
  /\ calls'[c].pc = "finally"

C12_RetentionStep ==
  \A c \in Calls :
    RetentionPass(c) =>
      /\ db' = db \ oldBackups(db, now)
      /\ \A r \in oldBackups(db, now) :
           /\ ~pathExists(files', EncPath(r.backupId))
           /\ ~pathExists(files', PlainPath(r.backupId))
      /\ \A p \in Paths :
           (\A r \in oldBackups(db, now) : p[2] # r.backupId)
             => files'[p] = files[p]

C12_RetentionExact == [][C12_RetentionStep]_vars

\* C13: a verify-only restore of a completed backup whose artifact has been
\* altered ends with the checksum-mismatch error and changes no state: the
\* record is still completed and its artifact file is still there.
C13_TamperDetected ==
  \A c \in RestoreCalls :
    (/\ calls[c].verifyOnly /\ calls[c].alteredAtStart
     /\ ~calls[c].queryFailed /\ Ended(c)
     /\ HasRow(db, calls[c].id)
     /\ RowOf(db, calls[c].id).status = "completed") =>
      /\ calls[c].result = "threw"
      /\ calls[c].err = ErrorMessage("checksum")
      /\ c \notin toolRuns
      /\ getBackupMetadata(db, calls[c].id) = calls[c].metadata
      /\ ArtifactOnDisk(calls[c].id)

\* C14: a restore call with a backupId that no record has fails at once with
\* the not-found error and changes nothing: no file, no row, no tool run, no
\* entry of activeBackups, and the relational store is as before.
RestoreBegins(c) == calls[c].op = "idle" /\ calls'[c].op = "restore"

C14_Step ==
  \A c \in Calls :
    (RestoreBegins(c) /\ ~HasRow(db, calls'[c].id)) =>
      /\ calls'[c].pc = "done"
      /\ calls'[c].result = "threw"
      /\ calls'[c].err = ErrorMessage("notfound")
      /\ UNCHANGED <<db, files, targetStore, toolRuns, activeBackups>>

C14_UnknownIdRejected == [][C14_Step]_vars

C14_Witness ==
  \E c \in RestoreCalls :
    /\ Ended(c) /\ ~calls[c].queryFailed
    /\ ~HasRow(db, calls[c].id)
    /\ calls[c].err = ErrorMessage("notfound")
    /\ db # {}

\* C15: a restore call on a record that is not completed ends at once with
\* the invalid-state error, before any decryption or tool run, whether it is
\* verify-only or full (a lookup that throws is reported as not found).
NotCompletedRow(id) == HasRow(db, id) /\ RowOf(db, id).status # "completed"

C15_Step ==
  \A c \in Calls :
    (/\ RestoreBegins(c) /\ ~calls'[c].queryFailed
     /\ NotCompletedRow(calls'[c].id)) =>
      /\ calls'[c].pc = "done"
      /\ calls'[c].result = "threw"
      /\ calls'[c].err = ErrorMessage("notready")
      /\ UNCHANGED <<db, files, targetStore, toolRuns, activeBackups>>

C16_NoDefaultKey ==
  /\ ckey # LongKey => (cpc = "plain" /\ cenc = <<>> /\ cres.kind = "none")
  /\ ckeyUsed # DefaultKey

\* C17 (as stated): when a manual or automatic create has raised its error to
\* the caller, the failed record with that error message is in the store.
FailedCreates(types) ==
  {c \in CreateCalls : /\ calls[c].type \in types /\ Ended(c)
                       /\ calls[c].metadata.status = "failed"}
StoredAsFailed(c) ==
  /\ HasRow(db, calls[c].id)
  /\ RowOf(db, calls[c].id).status = "failed"
  /\ RowOf(db, calls[c].id).error = calls[c].err

C17_FailedRecordWritten ==
  \A c \in FailedCreates({"manual", "automatic"}) :
    calls[c].result = "threw" /\ StoredAsFailed(c)

\* C17 (amended): a failed manual or automatic create raises the pipeline's
\* error to the caller only after saveBackupMetadata has been awaited with
\* the failed record, and that record is in the store unless the store
\* rejected the write.
C17_SaveThenRaise ==
  \A c \in FailedCreates({"manual", "automatic"}) :
    /\ calls[c].result = "threw"
    /\ calls[c].err # Undefined
    /\ calls[c].metadata.error = calls[c].err
    /\ calls[c].saveTried
    /\ calls[c].saveStored => StoredAsFailed(c)

C17_Witness ==
  \E c \in FailedCreates({"manual", "automatic"}) :
    calls[c].result = "threw" /\ calls[c].saveStored /\ StoredAsFailed(c)

\* C18 (as stated): a scheduled create whose pipeline failed returns
\* normally and its failed record is in the store, listed and counted.
ListedAsFailed(c) ==
  /\ \E b \in getBackupList(db) :
       /\ b.backupId = calls[c].id /\ b.status = "failed"
       /\ b.error = calls[c].err
  /\ getBackupStats.failedBackups >= 1
  /\ getBackupStats.failedBackups =
       Cardinality({b \in getBackupList(db) : b.status = "failed"})

C18_ScheduledFailureRecorded ==
  \A c \in FailedCreates({"scheduled"}) :
    calls[c].result = "returned" /\ ListedAsFailed(c)

\* C18 (amended): a scheduled create whose pipeline failed returns normally
\* after saveBackupMetadata has been awaited with the failed record; unless
\* the store rejected the write, the record is listed and counted as failed.
C18_ScheduledFailureSwallowed ==
  \A c \in FailedCreates({"scheduled"}) :
    /\ calls[c].result = "returned"
    /\ calls[c].saveTried
    /\ calls[c].saveStored => ListedAsFailed(c)

C18_Witness ==
  \E c \in FailedCreates({"scheduled"}) :
    calls[c].result = "returned" /\ calls[c].saveStored /\ ListedAsFailed(c)

\* C19: a run of the restore script that ended printed its success message
\* only if the service call returned, exited with a non-zero code whenever
\* it hit an error, and exited with a non-zero code when it was asked to
\* verify a backup that does not verify.
CliCalls == {c \in Calls : calls[c].cli}

VerifiesOk(b) ==
  /\ pathExists(files, b.path)
  /\ LET r == DecryptedBytes(files[b.path].data)
     IN  r.kind = "ok" /\ Sha256(r.data) = b.checksum

C19_CliExitStatus ==
  \A c \in CliCalls :
    Ended(c) =>
      /\ calls[c].report =>
           /\ calls[c].op = "restore"
           /\ calls[c].result = "returned"
      /\ calls[c].err # Undefined => calls[c].exit = "1"
      /\ (/\ calls[c].verifyOnly /\ calls[c].err = Undefined
          /\ \E b \in cliFind(db, calls[c].id) : ~VerifiesOk(b))
           => calls[c].exit = "1"

\* C20: while the pipeline of a create call is executing, the call's record
\* has status running, and a record becomes completed or failed only from
\* status running.
C20_PipelineStep ==
  \A c \in Calls :
    (/\ calls[c].op = "create" /\ calls'[c].op = "create"
     /\ calls'[c].metadata.status \in {"completed", "failed"}
     /\ calls[c].metadata.status # calls'[c].metadata.status)
      => calls[c].metadata.status = "running"

C20_RunningInPipeline ==
  /\ [](\A c \in CreateCalls :
          calls[c].pc = "perform" => calls[c].metadata.status = "running")
  /\ [][C20_PipelineStep]_vars

\* C21: decryption takes the first BlockSize bytes of the artifact as the
\* nonce and gives the cipher all the bytes after them and only those,
\* however the read stream splits the file into chunks.
NonceThenRest(file) ==
  LET iv   == SubSeq(file, 1, BlockSize)
      rest == SubSeq(file, BlockSize + 1, Len(file))
      p    == CbcDecrypt(iv, rest)
  IN  IF Len(file) > BlockSize /\ Len(rest) % BlockSize = 0 /\ PadOk(p)
        THEN [kind |-> "ok", data |-> Unpad(p)]
        ELSE [kind |-> "unhandled", data |-> <<>>]

C21_NonceThenRest ==
  cpc = "decrypted" =>
    /\ cres = NonceThenRest(cenc)
    /\ \A first \in 1..Len(cenc) :
         DecryptStream(cenc, first) = NonceThenRest(cenc)

\* C22: a verify-only restore that found the stored record of a backup
\* which create returned as completed, and whose artifact file is as the
\* encryption step wrote it, succeeds.
ReturnedCompleted(id) ==
  \E k \in CreateCalls :
    /\ calls[k].id = id /\ Ended(k) /\ calls[k].result = "returned"
    /\ calls[k].metadata.status = "completed"

Untouched(id) ==
  /\ pathExists(files, PlainPath(id))
  /\ ~files[PlainPath(id)].altered
  /\ ~pathExists(files, EncPath(id))

C22_VerifySucceeds ==
  \A c \in RestoreCalls :
    (/\ calls[c].verifyOnly /\ Ended(c) /\ ~calls[c].queryFailed
     /\ ReturnedCompleted(calls[c].id)
     /\ calls[c].metadata.status = "completed"
     /\ Untouched(calls[c].id)) =>
      /\ calls[c].result = "returned"
      /\ calls[c].err = Undefined

\* C23: the size of a completed record is the byte length of the encrypted
\* artifact file (nonce and ciphertext) stored for that backup.
C23_SizeOfArtifact ==
  \A r \in db :
    r.status = "completed" =>
      \A p \in {PlainPath(r.backupId), EncPath(r.backupId)} :
        pathExists(files, p) => r.size = Len(files[p].data)

\* C24: every stored record has encrypted = true, and once a create call
\* has ended, by success or by failure, the plain dump file of its run is
\* no longer on disk.
C24_NoPlainDumpKept ==
  /\ \A r \in db : r.encrypted
  /\ \A c \in CreateCalls :
       /\ calls[c].metadata.encrypted
       /\ Ended(c) => ~pathExists(files, SqlPath(calls[c].id))

C24_Witness ==
  \E c \in CreateCalls :
    /\ Ended(c)
    /\ calls[c].err = ErrorMessage("dump")
    /\ HasRow(db, calls[c].id)
    /\ RowOf(db, calls[c].id).encrypted
    /\ ~pathExists(files, SqlPath(calls[c].id))

\* C25 (as stated): every scheduled create that has ended has run the
\* retention pass.
ScheduledEnded == {c \in CreateCalls : calls[c].type = "scheduled" /\ Ended(c)}

C25_EveryTriggerCleans == \A c \in ScheduledEnded : calls[c].cleaned

\* C25 (amended): a scheduled create that has ended has run the retention
\* pass exactly when its pipeline succeeded; a manual or automatic create
\* never runs it.
C25_CleansAfterSuccess ==
  /\ \A c \in ScheduledEnded :
       calls[c].cleaned <=> calls[c].metadata.status = "completed"
  /\ \A c \in CreateCalls :
       calls[c].type # "scheduled" => ~calls[c].cleaned

C25_Witness ==
  \E c \in ScheduledEnded :
    calls[c].cleaned /\ calls[c].metadata.status = "completed"

\* C26: persisting a record again under a backupId that is already stored
\* leaves the row's timestamp, type and encrypted flag (and its row id) as
\* they were when the row was created.
C26_Step ==
  \A r \in db :
    \E r2 \in db' :
      /\ r2.backupId = r.backupId /\ r2.rowId = r.rowId
      /\ r2.timestamp = r.timestamp
      /\ r2.type = r.type
      /\ r2.encrypted = r.encrypted

C26_TimestampKept == [][C26_Step]_vars

C26_Witness ==
  \E r \in db :
    /\ calls[1].op = "save" /\ calls[1].saveStored
    /\ r.backupId = calls[1].metadata.id
    /\ r.status = calls[1].metadata.status
    /\ r.timestamp # calls[1].metadata.timestamp
    /\ r.type # calls[1].metadata.type
    /\ r.encrypted # calls[1].metadata.encrypted

\* C27: when a create call has returned a completed record to its caller,
\* a row with that backupId and status completed is in the store, and the
\* list shows it.
C27_CompletedIsStored ==
  \A c \in CreateCalls :
    (/\ Ended(c) /\ calls[c].result = "returned"
     /\ calls[c].metadata.status = "completed") =>
      /\ HasRow(db, calls[c].id)
      /\ RowOf(db, calls[c].id).status = "completed"
      /\ \E b \in getBackupList(db) :
           b.backupId = calls[c].id /\ b.status = "completed"

\* C28: restore and verify calls running side by side on one backupId do not
\* interfere: the scratch file a call has decrypted into is still there,
\* not deleted by another call, when the call comes to read it.
C28_NoInterference ==
  \A c \in RestoreCalls :
    calls[c].pc \in {"compare", "pgrestore"}
      => pathExists(files, scratchPath(c))

\* C29: once a restore or verify call is over, by success or by any failure,
\* the scratch file it decrypted into is gone (unless another call on the
\* same backup is still working with a file of that name).
Over(c) == calls[c].pc \in {"done", "crashed"}

C29_ScratchRemoved ==
  \A c \in RestoreCalls :
    (/\ Over(c)
     /\ \A k \in RestoreCalls \ {c} : calls[k].id = calls[c].id => Over(k))
      => /\ ~pathExists(files, RestoreTmp(calls[c].id))
         /\ ~pathExists(files, VerifyTmp(calls[c].id))

\* C30: in the notification store unreadCount is the number of stored
\* notifications whose read flag is false, and it is never negative.
Unreads == {i \in 1..Len(notifications) : ~notifications[i].read}

C30_UnreadCount ==
  /\ unreadCount = Cardinality(Unreads)
  /\ unreadCount >= 0

C30_Witness ==
  /\ \E id \in timers : findIndex(notifications, id) = 0
  /\ \E i \in 1..Len(notifications) : notifications[i].read
  /\ unreadCount = 1
  /\ Len(notifications) = MaxNotifs - 1

====
